---- MODULE Spec2Model ----
(***************************************************************************)
(* Model of src/components/FileUpload.tsx: the FileUpload component, its   *)
(* module-level authenticator, and the upload widget (IKUpload) that calls *)
(* the component's handlers.                                               *)
(*                                                                         *)
(* The component's handlers are translated from the source.  The widget    *)
(* itself is a third-party package whose code is not in the repository:    *)
(* its order of calls (validateFile, authenticator, start, progress,       *)
(* success | error) follows sections 2, 5 and 6 of the specification.      *)
(***************************************************************************)
EXTENDS Integers, Sequences, FiniteSets, TLC

(***************************************************************************)
(* Bounds of the model.                                                    *)
(***************************************************************************)
MaxInFlight == 2        \* upload attempts the widget can hold at once
MaxSuccess == 2         \* cap on the counted onFileChange calls
MaxLoadedChunks == 2    \* progress events report loaded = 50 * (0..2)
MaxTotalChunks == 4     \* progress events report total  = 50 * (0..4)

(***************************************************************************)
(* JavaScript values.                                                      *)
(***************************************************************************)
NULL == "<null>"
UNDEFINED == "<undefined>"

\* JavaScript truthiness of a string-or-nullish value (if (res.filePath), file?.filePath &&)
Truthy(v) == v \notin {NULL, UNDEFINED, ""}

\* value ?? null
NullishCoalesce(v) == IF v \in {NULL, UNDEFINED} THEN NULL ELSE v

\* JavaScript numbers that progress can hold: a finite integer, NaN or +Infinity
Num(n) == [kind |-> "finite", n |-> n]
NaN == [kind |-> "NaN", n |-> 0]
PosInfinity == [kind |-> "Infinity", n |-> 0]

\* Math.round of a non-negative quotient a / b (b > 0): floor(a / b + 1/2)
MathRound(a, b) == (2 * a + b) \div (2 * b)

\* x > 0 on JavaScript numbers (NaN compares false)
JsGtZero(x) ==
    CASE x.kind = "NaN" -> FALSE
      [] x.kind = "Infinity" -> TRUE
      [] OTHER -> x.n > 0

\* x !== 100 on JavaScript numbers
JsNotHundred(x) == ~(x.kind = "finite" /\ x.n = 100)

(***************************************************************************)
(* Props of the component instance (immutable after mount).                *)
(***************************************************************************)
MediaKinds == {"image", "video"}
InitialValues == {UNDEFINED, "/img/old.png"}

(***************************************************************************)
(* Inputs drawn by the environment.                                        *)
(***************************************************************************)
ImageLimit == 20 * 1024 * 1024
VideoLimit == 50 * 1024 * 1024
FileSizes == {0, ImageLimit, ImageLimit + 1, VideoLimit, VideoLimit + 1}

LoadedValues == {50 * k : k \in 0..MaxLoadedChunks}
TotalValues == {50 * k : k \in 0..MaxTotalChunks}

SuccessPayloads ==
    {[filePath |-> p] : p \in {"/img/abc.png", "/img/def.png", "", UNDEFINED}}

NoBody == [token |-> UNDEFINED, expire |-> 0, signature |-> UNDEFINED]
AuthBodies ==
    { [token |-> "t", expire |-> 123, signature |-> "s"],
      [token |-> "t2", expire |-> 456, signature |-> "s2"] }

\* What the fetch of the auth endpoint can settle with
FetchOutcomes ==
    {[kind |-> "netfail", ok |-> FALSE, status |-> "0",
      text |-> "Failed to fetch", json |-> NoBody]}
    \cup {[kind |-> "http", ok |-> FALSE, status |-> st[1],
           text |-> st[2], json |-> NoBody] :
              st \in {<<"500", "server error">>, <<"401", "unauthorized">>}}
    \cup {[kind |-> "ok", ok |-> TRUE, status |-> "200",
           text |-> "", json |-> b] : b \in AuthBodies}
    \cup {[kind |-> "badjson", ok |-> TRUE, status |-> "200",
           text |-> "<html>", json |-> NoBody]}

VARIABLES
    type,          \* prop type: "image" | "video"
    value,         \* prop value (initial remote path) or UNDEFINED
    file,          \* useState: { filePath }
    progress,      \* useState: progress
    dialogOpen,    \* the hidden input's file picker is open
    awaitingAuth,  \* attempts of the widget whose auth fetch is pending
    transferring,  \* attempts of the widget whose transfer is running
    lastEvent,     \* the handler that ran in the latest step
    toasted,       \* toasts raised in the latest step
    logged,        \* console lines written in the latest step
    changed,       \* arguments of the onFileChange calls of the latest step
    validated,     \* [size, ret] of the onValidate call of the latest step
    fetched,       \* what the auth fetch settled with in the latest step
    initiated,     \* the grant the transfer was initiated with in the latest step
    payload,       \* the payload of the success event of the latest step
    reported,      \* [loaded, total] of the progress event of the latest step
    nCalls,        \* onFileChange calls so far
    nSuccess,      \* success events with a non-empty filePath so far
    lastCall,      \* argument of the most recent onFileChange call
    errIdle        \* an error event has left the widget with nothing in flight

vars == <<type, value, file, progress, dialogOpen, awaitingAuth, transferring, lastEvent, toasted,
          logged, changed, validated, fetched, initiated, payload, reported,
          nCalls, nSuccess, lastCall, errIdle>>

NoValidate == [size |-> 0, ret |-> TRUE, called |-> FALSE]
NoPayload == [filePath |-> NULL]
NoReport == [loaded |-> 0, total |-> 0, called |-> FALSE]
NoFetch == [kind |-> "none", ok |-> FALSE, status |-> "0", text |-> "", json |-> NoBody]

\* attempts begun and not yet ended by a success or an error event
InFlight == awaitingAuth + transferring

(***************************************************************************)
(* authenticator: the continuation that runs once the fetch has settled.   *)
(* A message is the sequence of the pieces the template literal joins.     *)
(***************************************************************************)
ConsoleLine(level, label, message) ==
    [level |-> level, label |-> label, message |-> message]

\* authenticator without the response.ok test: an error body reaches response.json()
authenticator_NoStatusCheck(resp) ==
    LET caught == IF resp.kind = "netfail" THEN <<resp.text>>
                  ELSE <<"Unexpected token in JSON">>
    IN  IF resp.kind = "ok"
        THEN [settled |-> "resolved",
              value |-> [token |-> resp.json.token,
                         expire |-> resp.json.expire,
                         signature |-> resp.json.signature],
              message |-> <<>>,
              logs |-> <<>>]
        ELSE [settled |-> "rejected",
              value |-> NoBody,
              message |-> <<"Authentication request failed: ">> \o caught,
              logs |-> <<ConsoleLine("error", "Authenticator failed:", caught)>>]

\* authenticator returning token and signature in each other's place
authenticator_SwappedFields(resp) ==
    LET caught == IF resp.kind = "netfail" THEN <<resp.text>>
                  ELSE IF ~resp.ok
                  THEN <<"Request failed with status ", resp.status, ": ", resp.text>>
                  ELSE <<"Unexpected token in JSON">>
    IN  IF resp.kind = "ok"
        THEN [settled |-> "resolved",
              value |-> [token |-> resp.json.signature,
                         expire |-> resp.json.expire,
                         signature |-> resp.json.token],
              message |-> <<>>,
              logs |-> <<>>]
        ELSE [settled |-> "rejected",
              value |-> NoBody,
              message |-> <<"Authentication request failed: ">> \o caught,
              logs |-> (IF resp.kind # "netfail" /\ ~resp.ok
                        THEN <<ConsoleLine("error", "Authentication error:", <<resp.text>>)>>
                        ELSE <<>>)
                       \o <<ConsoleLine("error", "Authenticator failed:", caught)>>]

authenticator(resp) ==
    LET \* line 32: the Error thrown when !response.ok
        httpMessage == <<"Request failed with status ", resp.status, ": ", resp.text>>
        \* error.message seen by the catch block: of the rejected fetch, of the
        \* Error of line 32, or of the SyntaxError of response.json()
        caught == IF resp.kind = "netfail" THEN <<resp.text>>
                  ELSE IF ~resp.ok THEN httpMessage
                  ELSE <<"Unexpected token in JSON">>
        failed == resp.kind = "netfail" \/ ~resp.ok \/ resp.kind = "badjson"
    IN  IF ~failed
        THEN [settled |-> "resolved",
              value |-> [token |-> resp.json.token,
                         expire |-> resp.json.expire,
                         signature |-> resp.json.signature],
              message |-> <<>>,
              logs |-> <<>>]
        ELSE [settled |-> "rejected",
              value |-> NoBody,
              message |-> <<"Authentication request failed: ">> \o caught,
              logs |-> (IF resp.kind # "netfail" /\ ~resp.ok
                        THEN <<ConsoleLine("error", "Authentication error:", <<resp.text>>)>>
                        ELSE <<>>)
                       \o <<ConsoleLine("error", "Authenticator failed:", caught)>>]

(***************************************************************************)
(* Handlers of the component.  Each yields the effect of one call: the     *)
(* next file and progress state, the toasts and console lines it emits,    *)
(* the onFileChange calls it makes and its return value.                   *)
(***************************************************************************)
Toast(title, description, variant) ==
    [title |-> title, description |-> description, variant |-> variant]

Effect(f, p, toasts, logs, calls, ret) ==
    [file |-> f, progress |-> p, toasts |-> toasts, logs |-> logs,
     calls |-> calls, ret |-> ret]

\* onError that also clears the displayed path
onError_ClearsFile(error) ==
    Effect([filePath |-> NULL], progress,
           <<Toast(type \o " upload failed",
                   "Your " \o type \o " could not be uploaded. Please try again.",
                   "destructive")>>,
           <<ConsoleLine("error", "Upload error:", error)>>,
           <<>>, TRUE)

onError(error) ==
    Effect(file, progress,
           <<Toast(type \o " upload failed",
                   "Your " \o type \o " could not be uploaded. Please try again.",
                   "destructive")>>,
           <<ConsoleLine("error", "Upload error:", error)>>,
           <<>>, TRUE)

\* onSuccess that stores the path without notifying the parent
onSuccess_NoNotify(res) ==
    LET line == ConsoleLine("log", "Upload success response:", <<res.filePath>>)
    IN  IF Truthy(res.filePath)
        THEN Effect(res, progress,
                    <<Toast(type \o " uploaded successfully",
                            res.filePath \o " uploaded successfully!",
                            "default")>>,
                    <<line>>, <<>>, TRUE)
        ELSE LET e == onError(<<"No file path returned">>)
             IN  [e EXCEPT !.logs = <<line>> \o e.logs]

\* onSuccess without the test of res.filePath
onSuccess_NoPathCheck(res) ==
    Effect(res, progress,
           <<Toast(type \o " uploaded successfully",
                   res.filePath \o " uploaded successfully!",
                   "default")>>,
           <<ConsoleLine("log", "Upload success response:", <<res.filePath>>)>>,
           <<res.filePath>>, TRUE)

onSuccess(res) ==
    LET line == ConsoleLine("log", "Upload success response:", <<res.filePath>>)
    IN  IF Truthy(res.filePath)
        THEN Effect(res, progress,
                    <<Toast(type \o " uploaded successfully",
                            res.filePath \o " uploaded successfully!",
                            "default")>>,
                    <<line>>,
                    <<res.filePath>>, TRUE)
        ELSE LET e == onError(<<"No file path returned">>)
             IN  [e EXCEPT !.logs = <<line>> \o e.logs]

\* onValidate rejecting a file of exactly the ceiling (>= for >)
onValidate_InclusiveCeiling(size) ==
    IF type = "image" /\ size >= ImageLimit
    THEN Effect(file, progress,
                <<Toast("File size too large",
                        "Please upload a file that is less than 20MB in size",
                        "destructive")>>,
                <<>>, <<>>, FALSE)
    ELSE IF type = "video" /\ size >= VideoLimit
    THEN Effect(file, progress,
                <<Toast("File size too large",
                        "Please upload a file that is less than 50MB in size",
                        "destructive")>>,
                <<>>, <<>>, FALSE)
    ELSE Effect(file, progress, <<>>, <<>>, <<>>, TRUE)

onValidate(size) ==
    IF type = "image" /\ size > ImageLimit
    THEN Effect(file, progress,
                <<Toast("File size too large",
                        "Please upload a file that is less than 20MB in size",
                        "destructive")>>,
                <<>>, <<>>, FALSE)
    ELSE IF type = "video" /\ size > VideoLimit
    THEN Effect(file, progress,
                <<Toast("File size too large",
                        "Please upload a file that is less than 50MB in size",
                        "destructive")>>,
                <<>>, <<>>, FALSE)
    ELSE Effect(file, progress, <<>>, <<>>, <<>>, TRUE)

\* onUploadStart that leaves progress as it is
onUploadStart_NoReset == Effect(file, progress, <<>>, <<>>, <<>>, TRUE)

onUploadStart == Effect(file, Num(0), <<>>, <<>>, <<>>, TRUE)

\* Math.round((loaded / total) * 100); the quotient is an IEEE double, on which
\* 0/0 is NaN and x/0 is Infinity.  For the loaded and total values of this
\* model the double result equals the exact floor(100 * loaded / total + 1/2).
Percent(loaded, total) ==
    IF total = 0
    THEN IF loaded = 0 THEN NaN ELSE PosInfinity
    ELSE Num(MathRound(100 * loaded, total))

onUploadProgress(loaded, total) ==
    Effect(file, Percent(loaded, total), <<>>, <<>>, <<>>, TRUE)

\* {progress > 0 && progress !== 100 && (<div> ... )}
ProgressShown == JsGtZero(progress) /\ JsNotHundred(progress)

\* {file?.filePath && <p> ... } and the IKImage / IKVideo preview
DisplayedPath == IF Truthy(file.filePath) THEN file.filePath ELSE NULL

(***************************************************************************)
(* One step of the component: run a handler and record what it did.        *)
(***************************************************************************)
Apply(event, eff) ==
    /\ file' = eff.file
    /\ progress' = eff.progress
    /\ toasted' = eff.toasts
    /\ logged' = eff.logs
    /\ changed' = eff.calls
    /\ nCalls' = nCalls + Len(eff.calls)
    /\ lastCall' = IF eff.calls = <<>> THEN lastCall ELSE eff.calls[Len(eff.calls)]
    /\ lastEvent' = event

\* what the environment handed to the component in the step
Inputs(v, f, g, r, e) ==
    /\ validated' = v
    /\ fetched' = f
    /\ initiated' = g
    /\ payload' = r
    /\ reported' = e

NoEffect == Effect(file, progress, <<>>, <<>>, <<>>, TRUE)

Init ==
    /\ type \in MediaKinds
    /\ value \in InitialValues
    /\ file = [filePath |-> NullishCoalesce(value)]
    /\ progress = Num(0)
    /\ dialogOpen = FALSE
    /\ awaitingAuth = 0
    /\ transferring = 0
    /\ lastEvent = "mount"
    /\ toasted = <<>>
    /\ logged = <<>>
    /\ changed = <<>>
    /\ validated = NoValidate
    /\ fetched = NoFetch
    /\ initiated = NoBody
    /\ payload = NoPayload
    /\ reported = NoReport
    /\ nCalls = 0
    /\ nSuccess = 0
    /\ lastCall = NULL
    /\ errIdle = FALSE

\* button onClick: e.preventDefault(); ikUploadRef.current?.click()
ClickTrigger ==
    /\ ~dialogOpen
    /\ dialogOpen' = TRUE
    /\ Apply("click", NoEffect)
    /\ Inputs(NoValidate, NoFetch, NoBody, NoPayload, NoReport)
    /\ UNCHANGED <<type, value, awaitingAuth, transferring, nSuccess, errIdle>>

\* the user dismisses the picker without choosing a file
CancelDialog ==
    /\ dialogOpen
    /\ dialogOpen' = FALSE
    /\ Apply("cancel", NoEffect)
    /\ Inputs(NoValidate, NoFetch, NoBody, NoPayload, NoReport)
    /\ UNCHANGED <<type, value, awaitingAuth, transferring, nSuccess, errIdle>>

\* The user chooses one file: the widget calls validateFile and, when it
\* accepts, begins an attempt by calling the authenticator (fetch issued).
SelectFile(size) ==
    /\ dialogOpen
    /\ dialogOpen' = FALSE
    /\ LET eff == onValidate(size)
       IN  /\ Apply("validate", eff)
           /\ Inputs([size |-> size, ret |-> eff.ret, called |-> TRUE],
                     NoFetch, NoBody, NoPayload, NoReport)
           /\ IF eff.ret
              THEN /\ InFlight < MaxInFlight
                   /\ awaitingAuth' = awaitingAuth + 1
              ELSE awaitingAuth' = awaitingAuth
    /\ UNCHANGED <<type, value, transferring, nSuccess, errIdle>>

\* The auth fetch of an attempt settles and the authenticator resumes.  When it
\* resolves, the widget initiates the transfer with the grant and emits
\* start; when it rejects, the widget reports the error.
FetchSettled(resp) ==
    /\ awaitingAuth > 0
    /\ awaitingAuth' = awaitingAuth - 1
    /\ LET auth == authenticator(resp)
       IN  IF auth.settled = "resolved"
           THEN /\ transferring' = transferring + 1
                /\ Inputs(NoValidate, resp, auth.value, NoPayload, NoReport)
                /\ Apply("start", [onUploadStart EXCEPT !.logs = auth.logs \o @])
                /\ errIdle' = errIdle
           ELSE /\ transferring' = transferring
                /\ Inputs(NoValidate, resp, NoBody, NoPayload, NoReport)
                /\ LET e == onError(auth.message)
                   IN  Apply("error", [e EXCEPT !.logs = auth.logs \o @])
                /\ errIdle' = (errIdle \/ InFlight = 1)
    /\ UNCHANGED <<type, value, dialogOpen, nSuccess>>

\* xhr.upload progress event of an attempt whose transfer is running
UploadProgress(loaded, total) ==
    /\ transferring > 0
    /\ Apply("progress", onUploadProgress(loaded, total))
    /\ Inputs(NoValidate, NoFetch, NoBody, NoPayload,
              [loaded |-> loaded, total |-> total, called |-> TRUE])
    /\ UNCHANGED <<type, value, dialogOpen, awaitingAuth, transferring, nSuccess, errIdle>>

\* the transfer of an attempt completes with payload res
UploadSuccess(res) ==
    /\ transferring > 0
    /\ Truthy(res.filePath) => nSuccess < MaxSuccess
    /\ transferring' = transferring - 1
    /\ Apply("success", onSuccess(res))
    /\ Inputs(NoValidate, NoFetch, NoBody, res, NoReport)
    /\ nSuccess' = IF Truthy(res.filePath) THEN nSuccess + 1 ELSE nSuccess
    /\ UNCHANGED <<type, value, dialogOpen, awaitingAuth, errIdle>>

\* the transfer of an attempt fails
UploadError ==
    /\ transferring > 0
    /\ transferring' = transferring - 1
    /\ Apply("error", onError(<<"Upload failed">>))
    /\ Inputs(NoValidate, NoFetch, NoBody, NoPayload, NoReport)
    /\ errIdle' = (errIdle \/ InFlight = 1)
    /\ UNCHANGED <<type, value, dialogOpen, awaitingAuth, nSuccess>>

Next ==
    \/ ClickTrigger
    \/ CancelDialog
    \/ \E size \in FileSizes : SelectFile(size)
    \/ \E resp \in FetchOutcomes : FetchSettled(resp)
    \/ \E loaded \in LoadedValues, total \in TotalValues :
          UploadProgress(loaded, total)
    \/ \E res \in SuccessPayloads : UploadSuccess(res)
    \/ UploadError

Spec == Init /\ [][Next]_vars

(***************************************************************************)
(* Properties.                                                             *)
(***************************************************************************)
Contains(message, piece) == \E i \in DOMAIN message : message[i] = piece

HasLine(lines, label, piece) ==
    \E i \in DOMAIN lines : lines[i].label = label /\ Contains(lines[i].message, piece)

\* C1: onValidate returns true exactly for the files whose size is at most
\* 20 MiB (image) or 50 MiB (video), the ceiling itself included; on a
\* rejection a notice is shown, no attempt begins (no auth fetch, no transfer,
\* so no start, progress or success event of that selection) and file and
\* progress keep their values.
C1_ValidateCeiling ==
    [][ validated'.called =>
          /\ validated'.ret =
                (validated'.size <= (IF type = "image" THEN 20 * 1024 * 1024
                                                       ELSE 50 * 1024 * 1024))
          /\ ~validated'.ret =>
                /\ toasted' # <<>>
                /\ awaitingAuth' = awaitingAuth
                /\ transferring' = transferring
                /\ initiated' = NoBody
                /\ lastEvent' \notin {"start", "progress", "success"}
                /\ file' = file
                /\ progress' = progress
          /\ validated'.ret => awaitingAuth' = awaitingAuth + 1 ]_vars

C1_Witness ==
    /\ type = "video"
    /\ validated.called
    /\ validated.size = 50 * 1024 * 1024 + 1
    /\ ~validated.ret
    /\ InFlight = 0

\* C2: a success event with a non-empty filePath p calls onFileChange exactly
\* once, with p, and leaves p displayed; the number of onFileChange calls
\* equals the number of such success events; the displayed path is the
\* argument of the most recent call, or the initial value before any call.
C2_FileChangeOncePerSuccess ==
    /\ [](/\ nCalls = nSuccess
          /\ file.filePath = (IF nCalls = 0 THEN NullishCoalesce(value) ELSE lastCall)
          /\ DisplayedPath = (IF nCalls > 0 THEN lastCall
                              ELSE IF Truthy(value) THEN value ELSE NULL))
    /\ [][ /\ (lastEvent' = "success" /\ Truthy(payload'.filePath)) =>
                /\ changed' = <<payload'.filePath>>
                /\ nCalls' = nCalls + 1
                /\ lastCall' = payload'.filePath
                /\ DisplayedPath' = payload'.filePath
           /\ ~(lastEvent' = "success" /\ Truthy(payload'.filePath)) =>
                /\ changed' = <<>>
                /\ nCalls' = nCalls ]_vars

C2_Witness ==
    /\ lastEvent = "success"
    /\ nCalls = 2
    /\ changed = <<"/img/abc.png">>
    /\ file.filePath = "/img/abc.png"

\* C3: a success event whose filePath is empty or missing raises the failure
\* notice of onError, logs the error "No file path returned", does not call
\* onFileChange and leaves the displayed path and progress as they were.
C3_SuccessWithoutPath ==
    [][ (lastEvent' = "success" /\ payload'.filePath \in {"", UNDEFINED}) =>
          /\ Len(toasted') = 1
          /\ toasted'[1].title = type \o " upload failed"
          /\ toasted'[1].variant = "destructive"
          /\ HasLine(logged', "Upload error:", "No file path returned")
          /\ changed' = <<>>
          /\ nCalls' = nCalls
          /\ file' = file
          /\ progress' = progress ]_vars

C3_Witness ==
    /\ lastEvent = "success"
    /\ payload.filePath = ""
    /\ Len(toasted) = 1
    /\ Truthy(file.filePath)
    /\ progress = Num(50)

\* C4: when the auth endpoint answers with a non-success status, the
\* authenticator logs the failure and rejects with an error whose message
\* contains the response body; no grant is produced, no transfer is initiated
\* (the step is no start, progress or success event), and file and progress
\* keep their values.
C4_AuthHttpFailure ==
    [][ (fetched'.kind = "http") =>
          /\ HasLine(logged', "Authentication error:", fetched'.text)
          /\ HasLine(logged', "Authenticator failed:", fetched'.text)
          /\ HasLine(logged', "Upload error:", fetched'.text)
          /\ HasLine(logged', "Upload error:", "Authentication request failed: ")
          /\ initiated' = NoBody
          /\ lastEvent' = "error"
          /\ transferring' = transferring
          /\ awaitingAuth' = awaitingAuth - 1
          /\ file' = file
          /\ progress' = progress
          /\ changed' = <<>> ]_vars

C4_Witness ==
    /\ fetched.kind = "http"
    /\ fetched.status = "500"
    /\ fetched.text = "server error"
    /\ lastEvent = "error"
    /\ progress = Num(50)

\* C5: when the auth fetch succeeds with a body {token, expire, signature},
\* the transfer of that attempt is initiated in the step in which the fetch
\* settles, with exactly that triple; no transfer is initiated in any step
\* without its own successful fetch.
C5_GrantUnchanged ==
    /\ (fetched.kind = "ok") =>
          /\ initiated.token = fetched.json.token
          /\ initiated.expire = fetched.json.expire
          /\ initiated.signature = fetched.json.signature
          /\ lastEvent = "start"
    /\ (initiated # NoBody \/ lastEvent = "start") => fetched.kind = "ok"

C5_Witness ==
    /\ lastEvent = "start"
    /\ initiated = [token |-> "t", expire |-> 123, signature |-> "s"]
    /\ transferring = 2

\* C6: a progress event (loaded, total) sets progress to
\* round(loaded / total * 100), and the indicator is displayed exactly when
\* 0 < progress < 100.
C6_ProgressShownOnlyBelowHundred ==
    /\ (reported.called /\ reported.total > 0) =>
          /\ progress.kind = "finite"
          /\ 2 * reported.total * progress.n <=
                200 * reported.loaded + reported.total
          /\ 200 * reported.loaded + reported.total <
                2 * reported.total * (progress.n + 1)
    /\ ProgressShown <=>
          (progress.kind = "finite" /\ 0 < progress.n /\ progress.n < 100)

\* C7: at most one upload attempt is in flight at any time.
C7_AtMostOneInFlight == InFlight <= 1

\* C8: an error event raises the notice "<type> upload failed" and changes
\* nothing else: the displayed path and progress keep their values,
\* onFileChange is not called and no new attempt (auth fetch or transfer) is
\* begun; the trigger stays usable afterwards.
C8_ErrorFrame ==
    /\ []((errIdle /\ ~dialogOpen) => ENABLED ClickTrigger)
    /\ [][ (lastEvent' = "error") =>
             /\ Len(toasted') = 1
             /\ toasted'[1].title = type \o " upload failed"
             /\ file' = file
             /\ progress' = progress
             /\ changed' = <<>>
             /\ nCalls' = nCalls
             /\ initiated' = NoBody
             /\ awaitingAuth' <= awaitingAuth
             /\ transferring' <= transferring
             /\ InFlight' = InFlight - 1 ]_vars

\* an error left nothing in flight, and an upload begun after it succeeded
C8_Witness ==
    /\ errIdle
    /\ lastEvent = "success"
    /\ changed = <<"/img/def.png">>
    /\ file.filePath = "/img/def.png"

\* C9: progress is an integer in [0, 100] in every reachable state.
C9_ProgressInRange ==
    /\ progress.kind = "finite"
    /\ progress.n \in 0..100

\* C10: progress is 0 at mount; a start event sets it to exactly 0; success
\* and error events leave it as it was, so the last reported value persists
\* after a transfer has finished; only start and progress events change it.
C10_ResetOnlyOnStart ==
    /\ progress = Num(0)
    /\ [][ /\ lastEvent' = "start" => progress' = Num(0)
           /\ lastEvent' \in {"success", "error"} => progress' = progress
           /\ progress' # progress => lastEvent' \in {"start", "progress"} ]_vars

C10_Witness ==
    /\ lastEvent = "success"
    /\ progress = Num(100)
    /\ InFlight = 0

====
